---- MODULE Spec2Model ----
(***************************************************************************)
(* Relational data-access layer of the notes demo: the users and notes     *)
(* tables (server/db/index.ts), the CRUD statements (server/db crud        *)
(* module), the DrizzleStorage class and the query helpers                 *)
(* (server/storage.ts).  Every CRUD call is one SQL statement executed     *)
(* synchronously by better-sqlite3, hence one atomic action; helpers that  *)
(* issue several statements are split at the statement boundaries.         *)
(***************************************************************************)
EXTENDS Integers, Sequences, FiniteSets, TLC

VARIABLES
    users,      \* rows of table users in the connection of db/index.ts
    notes,      \* rows of table notes in the connection of db/index.ts
    userSeq,    \* sqlite_sequence entry of users   (AUTOINCREMENT)
    noteSeq,    \* sqlite_sequence entry of notes   (AUTOINCREMENT)
    sUsers,     \* rows of table users in the connection of storage.ts
    sNotes,     \* rows of table notes in the connection of storage.ts
    sUserSeq,   \* sqlite_sequence entry of users, storage.ts connection
    sNoteSeq,   \* sqlite_sequence entry of notes, storage.ts connection
    now,        \* the server clock, in milliseconds (new Date())
    pg,         \* getPaginatedNotes call suspended between its statements
    uw,         \* getUserWithNotes call suspended between its statements
    seed,       \* seedDatabase calls, each suspended between its statements
    last        \* the call issued most recently: operation and outcome

vars == <<users, notes, userSeq, noteSeq, sUsers, sNotes, sUserSeq, sNoteSeq,
          now, pg, uw, seed, last>>

indexDb   == <<users, notes, userSeq, noteSeq>>
storageDb == <<sUsers, sNotes, sUserSeq, sNoteSeq>>

----------------------------------------------------------------------------
(* Bounds of the model *)

MaxUserId == 2      \* users ever inserted per connection
MaxNoteId == 2      \* notes ever inserted per connection
MaxTicks  == 2      \* clock advances
MaxQueryNotes == 3  \* notes in the store searched and joined
MaxPageNotes  == 3  \* notes in the store paginated
MaxPage   == 4      \* largest page argument
MaxLimit  == 3      \* largest limit argument

(* Granularity of the clock and of the stored timestamp *)
TickMs   == 500
MsPerSec == 1000

Usernames == {"johndoe", "janedoe"}
Passwords == {"password123", "password456"}
Contents  == {"text"}
\* titles and title queries are strings, modelled as sequences of characters
Titles    == { <<"a">>, <<"A", "b">> }
Queries   == { <<>>, <<"a">>, <<"b">>, <<"_">>, <<"%">> }

\* the callers that may run seedDatabase
SeedCallers == {"s1", "s2"}

UserIdArgs == 1 .. (MaxUserId + 1)
NoteIdArgs == 1 .. (MaxNoteId + 1)

----------------------------------------------------------------------------
(* Column mapping of the schema *)

\* integer('is_important', { mode: 'boolean' })
BoolToDriver(b)   == IF b THEN 1 ELSE 0
BoolFromDriver(i) == i = 1

\* integer('created_at', { mode: 'timestamp' }): stored as whole seconds
TimestampToDriver(ms)  == ms \div MsPerSec
TimestampFromDriver(s) == s * MsPerSec

\* UserFromDriver with the two text columns mapped crosswise
UserFromDriver_Swapped(r) ==
    [id |-> r.id, username |-> r.password, password |-> r.username]

\* a users row as selected
UserFromDriver(r) ==
    [id |-> r.id, username |-> r.username, password |-> r.password]

\* a notes row as selected
NoteFromDriver(r) ==
    [id          |-> r.id,
     title       |-> r.title,
     content     |-> r.content,
     isImportant |-> BoolFromDriver(r.is_important),
     userId      |-> r.user_id,
     createdAt   |-> TimestampFromDriver(r.created_at)]

\* result rows as selected
UsersFromDriver(s) == [i \in 1 .. Len(s) |-> UserFromDriver(s[i])]
NotesFromDriver(s) == [i \in 1 .. Len(s) |-> NoteFromDriver(s[i])]

----------------------------------------------------------------------------
(* Helpers on tables *)

Max(S) == CHOOSE x \in S : \A y \in S : y <= x

Ids(tbl) == { r.id : r \in tbl }

RECURSIVE ByRowid(_)
\* a table scan: the rows of tbl in rowid order
ByRowid(tbl) ==
    IF tbl = {} THEN << >>
    ELSE LET r == CHOOSE x \in tbl : \A y \in tbl : x.id <= y.id
         IN  <<r>> \o ByRowid(tbl \ {r})


\* JavaScript result[0] || null  and  result[0]
FirstOrNull(rows) ==
    IF Len(rows) = 0 THEN [tag |-> "null", rows |-> << >>]
    ELSE [tag |-> "row", rows |-> <<rows[1]>>]

FirstOrUndefined(rows) ==
    IF Len(rows) = 0 THEN [tag |-> "undefined", rows |-> << >>]
    ELSE [tag |-> "row", rows |-> <<rows[1]>>]

RowsResult(rows) == [tag |-> "rows", rows |-> rows]

Thrown(code) == [tag |-> "throw", rows |-> << >>, code |-> code]

\* a call that has not returned yet
Pending == [tag |-> "pending", rows |-> << >>]

Has(f, k) == k \in DOMAIN f

----------------------------------------------------------------------------
(* The SQL statements, as functions of the tables *)

\* InsertUser without the UNIQUE index on username
InsertUser_NoUnique(tbl, seq, u) ==
    LET id  == Max(Ids(tbl) \cup {seq}) + 1
        row == [id |-> id, username |-> u.username, password |-> u.password]
    IN  [ok |-> TRUE, code |-> "",
         tbl |-> tbl \cup {row}, seq |-> id, rows |-> <<row>>]

\* InsertUser on a table without AUTOINCREMENT: the next rowid is one more
\* than the largest rowid in the table
InsertUser_ReusesRowid(tbl, seq, u) ==
    IF \E r \in tbl : r.username = u.username
    THEN [ok |-> FALSE, code |-> "SQLITE_CONSTRAINT_UNIQUE",
          tbl |-> tbl, seq |-> seq, rows |-> << >>]
    ELSE LET id  == Max(Ids(tbl) \cup {0}) + 1
             row == [id |-> id, username |-> u.username, password |-> u.password]
         IN  [ok |-> TRUE, code |-> "",
              tbl |-> tbl \cup {row}, seq |-> Max({seq, id}), rows |-> <<row>>]

\* INSERT INTO users ... RETURNING *
InsertUser(tbl, seq, u) ==
    IF \E r \in tbl : r.username = u.username
    THEN [ok |-> FALSE, code |-> "SQLITE_CONSTRAINT_UNIQUE",
          tbl |-> tbl, seq |-> seq, rows |-> << >>]
    ELSE LET id  == Max(Ids(tbl) \cup {seq}) + 1
             row == [id |-> id, username |-> u.username, password |-> u.password]
         IN  [ok |-> TRUE, code |-> "",
              tbl |-> tbl \cup {row}, seq |-> id, rows |-> <<row>>]


\* UPDATE users SET ... WHERE id = ? RETURNING *
UpdateUser(tbl, id, data) ==
    LET target == { r \in tbl : r.id = id }
        new(r) == [id       |-> r.id,
                   username |-> IF Has(data, "username") THEN data.username
                                ELSE r.username,
                   password |-> IF Has(data, "password") THEN data.password
                                ELSE r.password]
        rest   == tbl \ target
    IN  IF DOMAIN data = {}
        THEN [ok |-> FALSE, code |-> "NO_VALUES_TO_SET", tbl |-> tbl, rows |-> << >>]
        ELSE IF \E r \in target : \E o \in rest : o.username = new(r).username
        THEN [ok |-> FALSE, code |-> "SQLITE_CONSTRAINT_UNIQUE",
              tbl |-> tbl, rows |-> << >>]
        ELSE [ok |-> TRUE, code |-> "",
              tbl |-> rest \cup { new(r) : r \in target },
              rows |-> ByRowid({ new(r) : r \in target })]

\* DeleteUser without ON DELETE CASCADE on notes.user_id
DeleteUser_NoCascade(utbl, ntbl, id) ==
    LET target == { r \in utbl : r.id = id }
    IN  [ok |-> TRUE, code |-> "",
         utbl |-> utbl \ target,
         ntbl |-> ntbl,
         rows |-> ByRowid(target)]

\* DELETE FROM users WHERE id = ? RETURNING *   (notes: ON DELETE CASCADE)
DeleteUser(utbl, ntbl, id) ==
    LET target == { r \in utbl : r.id = id }
    IN  [ok |-> TRUE, code |-> "",
         utbl |-> utbl \ target,
         ntbl |-> { n \in ntbl : n.user_id \notin Ids(target) },
         rows |-> ByRowid(target)]

\* InsertNote on a table whose is_important column has DEFAULT 1
InsertNote_DefaultImportant(ntbl, utbl, seq, v) ==
    IF v.userId \notin Ids(utbl)
    THEN [ok |-> FALSE, code |-> "SQLITE_CONSTRAINT_FOREIGNKEY",
          tbl |-> ntbl, seq |-> seq, rows |-> << >>]
    ELSE LET id  == Max(Ids(ntbl) \cup {seq}) + 1
             row == [id           |-> id,
                     title        |-> v.title,
                     content      |-> v.content,
                     is_important |-> IF Has(v, "isImportant")
                                      THEN BoolToDriver(v.isImportant) ELSE 1,
                     user_id      |-> v.userId,
                     created_at   |-> TimestampToDriver(v.createdAt)]
         IN  [ok |-> TRUE, code |-> "",
              tbl |-> ntbl \cup {row}, seq |-> id, rows |-> <<row>>]

\* InsertNote without the foreign key on notes.user_id
InsertNote_NoForeignKey(ntbl, utbl, seq, v) ==
    LET id  == Max(Ids(ntbl) \cup {seq}) + 1
        row == [id           |-> id,
                title        |-> v.title,
                content      |-> v.content,
                is_important |-> IF Has(v, "isImportant")
                                 THEN BoolToDriver(v.isImportant) ELSE 0,
                user_id      |-> v.userId,
                created_at   |-> TimestampToDriver(v.createdAt)]
    IN  [ok |-> TRUE, code |-> "",
         tbl |-> ntbl \cup {row}, seq |-> id, rows |-> <<row>>]

\* INSERT INTO notes ... RETURNING *   (user_id REFERENCES users(id))
InsertNote(ntbl, utbl, seq, v) ==
    IF v.userId \notin Ids(utbl)
    THEN [ok |-> FALSE, code |-> "SQLITE_CONSTRAINT_FOREIGNKEY",
          tbl |-> ntbl, seq |-> seq, rows |-> << >>]
    ELSE LET id  == Max(Ids(ntbl) \cup {seq}) + 1
             row == [id           |-> id,
                     title        |-> v.title,
                     content      |-> v.content,
                     is_important |-> IF Has(v, "isImportant")
                                      THEN BoolToDriver(v.isImportant) ELSE 0,
                     user_id      |-> v.userId,
                     created_at   |-> TimestampToDriver(v.createdAt)]
         IN  [ok |-> TRUE, code |-> "",
              tbl |-> ntbl \cup {row}, seq |-> id, rows |-> <<row>>]

\* UpdateNote that stamps created_at again
UpdateNote_RestampsCreatedAt(ntbl, utbl, id, data) ==
    LET target == { r \in ntbl : r.id = id }
        new(r) == [id           |-> r.id,
                   title        |-> IF Has(data, "title") THEN data.title
                                    ELSE r.title,
                   content      |-> IF Has(data, "content") THEN data.content
                                    ELSE r.content,
                   is_important |-> IF Has(data, "isImportant")
                                    THEN BoolToDriver(data.isImportant)
                                    ELSE r.is_important,
                   user_id      |-> IF Has(data, "userId") THEN data.userId
                                    ELSE r.user_id,
                   created_at   |-> TimestampToDriver(now)]
    IN  IF DOMAIN data = {}
        THEN [ok |-> FALSE, code |-> "NO_VALUES_TO_SET", tbl |-> ntbl, rows |-> << >>]
        ELSE IF \E r \in target : new(r).user_id \notin Ids(utbl)
        THEN [ok |-> FALSE, code |-> "SQLITE_CONSTRAINT_FOREIGNKEY",
              tbl |-> ntbl, rows |-> << >>]
        ELSE [ok |-> TRUE, code |-> "",
              tbl |-> (ntbl \ target) \cup { new(r) : r \in target },
              rows |-> ByRowid({ new(r) : r \in target })]

\* UpdateNote that writes the column default into is_important when the patch
\* does not carry isImportant
UpdateNote_ResetsImportant(ntbl, utbl, id, data) ==
    LET target == { r \in ntbl : r.id = id }
        new(r) == [id           |-> r.id,
                   title        |-> IF Has(data, "title") THEN data.title
                                    ELSE r.title,
                   content      |-> IF Has(data, "content") THEN data.content
                                    ELSE r.content,
                   is_important |-> IF Has(data, "isImportant")
                                    THEN BoolToDriver(data.isImportant)
                                    ELSE 0,
                   user_id      |-> IF Has(data, "userId") THEN data.userId
                                    ELSE r.user_id,
                   created_at   |-> r.created_at]
    IN  IF DOMAIN data = {}
        THEN [ok |-> FALSE, code |-> "NO_VALUES_TO_SET", tbl |-> ntbl, rows |-> << >>]
        ELSE IF \E r \in target : new(r).user_id \notin Ids(utbl)
        THEN [ok |-> FALSE, code |-> "SQLITE_CONSTRAINT_FOREIGNKEY",
              tbl |-> ntbl, rows |-> << >>]
        ELSE [ok |-> TRUE, code |-> "",
              tbl |-> (ntbl \ target) \cup { new(r) : r \in target },
              rows |-> ByRowid({ new(r) : r \in target })]

\* UpdateNote without the foreign key on notes.user_id
UpdateNote_NoForeignKey(ntbl, utbl, id, data) ==
    LET target == { r \in ntbl : r.id = id }
        new(r) == [id           |-> r.id,
                   title        |-> IF Has(data, "title") THEN data.title
                                    ELSE r.title,
                   content      |-> IF Has(data, "content") THEN data.content
                                    ELSE r.content,
                   is_important |-> IF Has(data, "isImportant")
                                    THEN BoolToDriver(data.isImportant)
                                    ELSE r.is_important,
                   user_id      |-> IF Has(data, "userId") THEN data.userId
                                    ELSE r.user_id,
                   created_at   |-> r.created_at]
    IN  IF DOMAIN data = {}
        THEN [ok |-> FALSE, code |-> "NO_VALUES_TO_SET", tbl |-> ntbl, rows |-> << >>]
        ELSE [ok |-> TRUE, code |-> "",
              tbl |-> (ntbl \ target) \cup { new(r) : r \in target },
              rows |-> ByRowid({ new(r) : r \in target })]

\* UPDATE notes SET ... WHERE id = ? RETURNING *
UpdateNote(ntbl, utbl, id, data) ==
    LET target == { r \in ntbl : r.id = id }
        new(r) == [id           |-> r.id,
                   title        |-> IF Has(data, "title") THEN data.title
                                    ELSE r.title,
                   content      |-> IF Has(data, "content") THEN data.content
                                    ELSE r.content,
                   is_important |-> IF Has(data, "isImportant")
                                    THEN BoolToDriver(data.isImportant)
                                    ELSE r.is_important,
                   user_id      |-> IF Has(data, "userId") THEN data.userId
                                    ELSE r.user_id,
                   created_at   |-> r.created_at]
    IN  IF DOMAIN data = {}
        THEN [ok |-> FALSE, code |-> "NO_VALUES_TO_SET", tbl |-> ntbl, rows |-> << >>]
        ELSE IF \E r \in target : new(r).user_id \notin Ids(utbl)
        THEN [ok |-> FALSE, code |-> "SQLITE_CONSTRAINT_FOREIGNKEY",
              tbl |-> ntbl, rows |-> << >>]
        ELSE [ok |-> TRUE, code |-> "",
              tbl |-> (ntbl \ target) \cup { new(r) : r \in target },
              rows |-> ByRowid({ new(r) : r \in target })]

\* DELETE FROM notes WHERE id = ? RETURNING *
DeleteNote(ntbl, id) ==
    LET target == { r \in ntbl : r.id = id }
    IN  [ok |-> TRUE, code |-> "", tbl |-> ntbl \ target, rows |-> ByRowid(target)]

\* DeleteNotesOfUser without its WHERE clause
DeleteNotesOfUser_All(ntbl, userId) ==
    [ok |-> TRUE, code |-> "", tbl |-> {}, changes |-> Cardinality(ntbl)]

\* DELETE FROM notes WHERE user_id = ?
DeleteNotesOfUser(ntbl, userId) ==
    LET target == { r \in ntbl : r.user_id = userId }
    IN  [ok |-> TRUE, code |-> "", tbl |-> ntbl \ target, changes |-> Cardinality(target)]

\* SELECT * FROM users WHERE id = ?
SelectUserById(tbl, id) ==
    UsersFromDriver(ByRowid({ r \in tbl : r.id = id }))

\* SELECT * FROM users WHERE username = ?
SelectUserByUsername(tbl, username) ==
    UsersFromDriver(ByRowid({ r \in tbl : r.username = username }))

\* SELECT * FROM notes WHERE id = ?
SelectNoteById(tbl, id) ==
    NotesFromDriver(ByRowid({ r \in tbl : r.id = id }))

\* SELECT * FROM notes WHERE user_id = ?
SelectNotesByUserId(tbl, userId) ==
    NotesFromDriver(ByRowid({ r \in tbl : r.user_id = userId }))

----------------------------------------------------------------------------
(* Arguments of the calls *)

InsertUsers == [username : Usernames, password : {"password123"}]

\* Partial<Omit<InsertUser, 'id'>>
UserPatches ==
    { << >> }
    \cup { [username |-> u] : u \in Usernames }
    \cup { [password |-> "password456"] }
    \cup { [username |-> u, password |-> "password456"] : u \in Usernames }

\* InsertNote: isImportant is optional
InsertNotes ==
    [title : {<<"a">>}, content : Contents, userId : UserIdArgs]
    \cup [title : {<<"a">>}, content : Contents, isImportant : BOOLEAN,
          userId : UserIdArgs]

\* Partial<Omit<InsertNote, 'id'>>
NotePatches ==
    { << >> }
    \cup { [isImportant |-> b] : b \in BOOLEAN }
    \cup { [userId |-> u] : u \in UserIdArgs }
    \cup { [isImportant |-> TRUE, userId |-> u] : u \in UserIdArgs }

----------------------------------------------------------------------------
(* Reads of the CRUD module: one SELECT each *)

getUserById(id) == FirstOrNull(SelectUserById(users, id))

getUserByUsername(username) == FirstOrNull(SelectUserByUsername(users, username))

getAllUsers == RowsResult(UsersFromDriver(ByRowid(users)))

getNoteById(id) == FirstOrNull(SelectNoteById(notes, id))

getAllNotes == RowsResult(NotesFromDriver(ByRowid(notes)))

getNotesByUserId(userId) == RowsResult(SelectNotesByUserId(notes, userId))

----------------------------------------------------------------------------
(* Writes of the CRUD module: one statement each *)

Outcome(r, rows) == IF r.ok THEN FirstOrNull(rows) ELSE Thrown(r.code)

createUser(user) ==
    LET r == InsertUser(users, userSeq, user)
    IN  /\ users' = r.tbl
        /\ userSeq' = r.seq
        /\ last' = [op |-> "createUser",
                    ret |-> Outcome(r, UsersFromDriver(r.rows))]
        /\ UNCHANGED <<notes, noteSeq, storageDb, now, pg, uw, seed>>

updateUser(id, data) ==
    LET r == UpdateUser(users, id, data)
    IN  /\ users' = r.tbl
        /\ last' = [op |-> "updateUser",
                    ret |-> Outcome(r, UsersFromDriver(r.rows))]
        /\ UNCHANGED <<notes, userSeq, noteSeq, storageDb, now, pg, uw, seed>>

deleteUser(id) ==
    LET r == DeleteUser(users, notes, id)
    IN  /\ users' = r.utbl
        /\ notes' = r.ntbl
        /\ last' = [op |-> "deleteUser",
                    ret |-> Outcome(r, UsersFromDriver(r.rows))]
        /\ UNCHANGED <<userSeq, noteSeq, storageDb, now, pg, uw, seed>>

\* createNote that spreads the input over the stamp: a createdAt of the
\* caller wins
createNote_TrustsCaller(note) ==
    LET v == [k \in DOMAIN note \cup {"createdAt"} |->
                 IF k \in DOMAIN note THEN note[k] ELSE now]
        r == InsertNote(notes, users, noteSeq, v)
    IN  /\ notes' = r.tbl
        /\ noteSeq' = r.seq
        /\ last' = [op |-> "createNote",
                    ret |-> Outcome(r, NotesFromDriver(r.rows))]
        /\ UNCHANGED <<users, userSeq, storageDb, now, pg, uw, seed>>

createNote(note) ==
    LET v == [k \in DOMAIN note \cup {"createdAt"} |->
                 IF k = "createdAt" THEN now ELSE note[k]]
        r == InsertNote(notes, users, noteSeq, v)
    IN  /\ notes' = r.tbl
        /\ noteSeq' = r.seq
        /\ last' = [op |-> "createNote",
                    ret |-> Outcome(r, NotesFromDriver(r.rows))]
        /\ UNCHANGED <<users, userSeq, storageDb, now, pg, uw, seed>>

updateNote(id, data) ==
    LET r == UpdateNote(notes, users, id, data)
    IN  /\ notes' = r.tbl
        /\ last' = [op |-> "updateNote",
                    ret |-> Outcome(r, NotesFromDriver(r.rows))]
        /\ UNCHANGED <<users, userSeq, noteSeq, storageDb, now, pg, uw, seed>>

deleteNote(id) ==
    LET r == DeleteNote(notes, id)
    IN  /\ notes' = r.tbl
        /\ last' = [op |-> "deleteNote",
                    ret |-> Outcome(r, NotesFromDriver(r.rows))]
        /\ UNCHANGED <<users, userSeq, noteSeq, storageDb, now, pg, uw, seed>>

deleteUserNotes(userId) ==
    LET r == DeleteNotesOfUser(notes, userId)
    IN  /\ notes' = r.tbl
        /\ last' = [op |-> "deleteUserNotes",
                    ret |-> [tag |-> "runResult", rows |-> << >>,
                             changes |-> r.changes]]
        /\ UNCHANGED <<users, userSeq, noteSeq, storageDb, now, pg, uw, seed>>

----------------------------------------------------------------------------
(* DrizzleStorage (server/storage.ts): same statements, on the connection  *)
(* that storage.ts opens for itself                                        *)

DrizzleStorage_getUserById(id) == FirstOrUndefined(SelectUserById(sUsers, id))

DrizzleStorage_getUserByUsername(username) ==
    FirstOrUndefined(SelectUserByUsername(sUsers, username))

DrizzleStorage_getAllUsers == RowsResult(UsersFromDriver(ByRowid(sUsers)))

DrizzleStorage_getNoteById(id) == FirstOrUndefined(SelectNoteById(sNotes, id))

DrizzleStorage_getAllNotes == RowsResult(NotesFromDriver(ByRowid(sNotes)))

DrizzleStorage_getNotesByUserId(userId) ==
    RowsResult(SelectNotesByUserId(sNotes, userId))

OutcomeU(r, rows) == IF r.ok THEN FirstOrUndefined(rows) ELSE Thrown(r.code)

DrizzleStorage_createUser(user) ==
    LET r == InsertUser(sUsers, sUserSeq, user)
    IN  /\ sUsers' = r.tbl
        /\ sUserSeq' = r.seq
        /\ last' = [op |-> "DrizzleStorage.createUser",
                    ret |-> OutcomeU(r, UsersFromDriver(r.rows))]
        /\ UNCHANGED <<sNotes, sNoteSeq, indexDb, now, pg, uw, seed>>

DrizzleStorage_createNote(note) ==
    LET v == [k \in DOMAIN note \cup {"createdAt"} |->
                 IF k = "createdAt" THEN now ELSE note[k]]
        r == InsertNote(sNotes, sUsers, sNoteSeq, v)
    IN  /\ sNotes' = r.tbl
        /\ sNoteSeq' = r.seq
        /\ last' = [op |-> "DrizzleStorage.createNote",
                    ret |-> OutcomeU(r, NotesFromDriver(r.rows))]
        /\ UNCHANGED <<sUsers, sUserSeq, indexDb, now, pg, uw, seed>>

----------------------------------------------------------------------------
(* Query helpers (server/storage.ts, on the connection of db/index.ts)     *)

\* ASCII case folding of the LIKE operator, on the characters used here
AsciiLower(c) ==
    IF c = "A" THEN "a" ELSE IF c = "B" THEN "b" ELSE c

RECURSIVE Like(_, _)
\* str LIKE pat: % matches any run of characters, _ matches one character,
\* any other character matches itself regardless of ASCII case; no escape
Like(pat, str) ==
    IF pat = << >> THEN str = << >>
    ELSE IF Head(pat) = "%"
         THEN Like(Tail(pat), str) \/ (str # << >> /\ Like(pat, Tail(str)))
         ELSE /\ str # << >>
              /\ \/ Head(pat) = "_"
                 \/ AsciiLower(Head(pat)) = AsciiLower(Head(str))
              /\ Like(Tail(pat), Tail(str))

RECURSIVE OrderByDesc_Asc(_)
\* OrderByDesc with the direction reversed (asc instead of desc)
OrderByDesc_Asc(keyed) ==
    IF keyed = {} THEN { << >> }
    ELSE UNION { { <<x.row>> \o t : t \in OrderByDesc_Asc(keyed \ {x}) } :
                 x \in { m \in keyed : \A y \in keyed : m.key <= y.key } }

RECURSIVE OrderByDesc(_)
\* ORDER BY key DESC over rows paired with their sort key: every order the
\* engine may produce; rows with equal keys come out in an order SQL leaves open
OrderByDesc(keyed) ==
    IF keyed = {} THEN { << >> }
    ELSE UNION { { <<x.row>> \o t : t \in OrderByDesc(keyed \ {x}) } :
                 x \in { m \in keyed : \A y \in keyed : y.key <= m.key } }

\* the sort key desc(notes.createdAt)
ByCreatedAt(rows) == { [key |-> r.created_at, row |-> r] : r \in rows }

\* LimitOffset that drops the OFFSET clause
LimitOffset_NoOffset(s, limit, offset) ==
    SubSeq(s, 1, IF limit < 0 \/ limit > Len(s) THEN Len(s) ELSE limit)

\* LIMIT limit OFFSET offset: a negative limit is no limit, a negative
\* offset is 0
LimitOffset(s, limit, offset) ==
    LET off == IF offset < 0 THEN 0 ELSE offset
        lst == IF limit < 0 \/ off + limit > Len(s) THEN Len(s) ELSE off + limit
    IN  SubSeq(s, off + 1, lst)

\* MathCeilDiv that rounds down (Math.floor)
MathCeilDiv_Floor(total, limit) ==
    IF limit = 0
    THEN [kind |-> IF total = 0 THEN "NaN" ELSE "Infinity", n |-> 0]
    ELSE IF limit > 0
    THEN [kind |-> "finite", n |-> total \div limit]
    ELSE [kind |-> "finite", n |-> 0 - ((total - limit - 1) \div (0 - limit))]

\* Math.ceil(total / limit) on JavaScript numbers
MathCeilDiv(total, limit) ==
    IF limit = 0
    THEN [kind |-> IF total = 0 THEN "NaN" ELSE "Infinity", n |-> 0]
    ELSE IF limit > 0
    THEN [kind |-> "finite", n |-> (total + limit - 1) \div limit]
    ELSE [kind |-> "finite", n |-> 0 - (total \div (0 - limit))]

\* SELECT * FROM notes [WHERE title LIKE ? [AND] is_important = ?]
\* ORDER BY created_at DESC
searchNotesResults(titleQuery, importantOnly) ==
    LET cond(r) == /\ (titleQuery # << >>) =>
                         Like(<<"%">> \o titleQuery \o <<"%">>, r.title)
                   /\ importantOnly => r.is_important = BoolToDriver(TRUE)
    IN  { NotesFromDriver(s) :
            s \in OrderByDesc(ByCreatedAt({ r \in notes : cond(r) })) }

searchNotes(titleQuery, importantOnly) ==
    /\ \E rows \in searchNotesResults(titleQuery, importantOnly) :
          last' = [op |-> "searchNotes", ret |-> RowsResult(rows)]
    /\ UNCHANGED <<indexDb, storageDb, now, pg, uw, seed>>

\* SELECT * FROM notes ORDER BY created_at DESC LIMIT ? OFFSET ?
selectNotesPage(page, limit) ==
    LET offset == (page - 1) * limit
    IN  { NotesFromDriver(LimitOffset(s, limit, offset)) :
            s \in OrderByDesc(ByCreatedAt(notes)) }

\* getPaginatedNotes, first statement: the page
getPaginatedNotes_select(page, limit) ==
    /\ pg.pc = "idle"
    /\ \E rows \in selectNotesPage(page, limit) :
          pg' = [pc |-> "count", page |-> page, limit |-> limit,
                 paginatedNotes |-> rows]
    /\ last' = [op |-> "getPaginatedNotes", ret |-> Pending]
    /\ UNCHANGED <<indexDb, storageDb, now, uw, seed>>

\* getPaginatedNotes_count that takes the length of the page for the total
getPaginatedNotes_count_FromPage ==
    /\ pg.pc = "count"
    /\ LET total == Len(pg.paginatedNotes)
       IN  last' = [op |-> "getPaginatedNotes",
                    ret |-> [tag |-> "page",
                             rows |-> pg.paginatedNotes,
                             pagination |->
                                [page  |-> pg.page,
                                 limit |-> pg.limit,
                                 total |-> total,
                                 pages |-> MathCeilDiv(total, pg.limit)]]]
    /\ pg' = [pc |-> "idle"]
    /\ UNCHANGED <<indexDb, storageDb, now, uw, seed>>

\* getPaginatedNotes, second statement: SELECT count(*) FROM notes, and return
getPaginatedNotes_count ==
    /\ pg.pc = "count"
    /\ LET total == Cardinality(notes)
       IN  last' = [op |-> "getPaginatedNotes",
                    ret |-> [tag |-> "page",
                             rows |-> pg.paginatedNotes,
                             pagination |->
                                [page  |-> pg.page,
                                 limit |-> pg.limit,
                                 total |-> total,
                                 pages |-> MathCeilDiv(total, pg.limit)]]]
    /\ pg' = [pc |-> "idle"]
    /\ UNCHANGED <<indexDb, storageDb, now, uw, seed>>

\* SELECT note columns, users.id, users.username FROM notes
\* INNER JOIN users ON notes.user_id = users.id ORDER BY notes.created_at DESC
getNotesWithUsersResults ==
    LET joined == { <<n, u>> \in notes \X users : n.user_id = u.id }
        shape(j) ==
            [note |-> [id          |-> j[1].id,
                       title       |-> j[1].title,
                       content     |-> j[1].content,
                       isImportant |-> BoolFromDriver(j[1].is_important),
                       createdAt   |-> TimestampFromDriver(j[1].created_at)],
             user |-> [id |-> j[2].id, username |-> j[2].username]]
    IN  { [i \in 1 .. Len(s) |-> shape(s[i])] :
            s \in OrderByDesc({ [key |-> j[1].created_at, row |-> j] : j \in joined }) }

getNotesWithUsers ==
    /\ \E rows \in getNotesWithUsersResults :
          last' = [op |-> "getNotesWithUsers", ret |-> RowsResult(rows)]
    /\ UNCHANGED <<indexDb, storageDb, now, pg, uw, seed>>

\* getUserWithNotes, first statement: SELECT * FROM users WHERE id = ?, and
\* return null when no row came back
getUserWithNotes_user(userId) ==
    /\ uw.pc = "idle"
    /\ LET user == SelectUserById(users, userId)
       IN  IF user = << >>
           THEN /\ last' = [op |-> "getUserWithNotes",
                            ret |-> [tag |-> "null", rows |-> << >>]]
                /\ uw' = uw
           ELSE /\ last' = [op |-> "getUserWithNotes", ret |-> Pending]
                /\ uw' = [pc |-> "notes", userId |-> userId, user |-> user[1]]
    /\ UNCHANGED <<indexDb, storageDb, now, pg, seed>>

\* the number of elements of a sequence of notes that are important
CountImportant(userNotes) ==
    Cardinality({ i \in 1 .. Len(userNotes) : userNotes[i].isImportant })

\* getUserWithNotes_notes counting every note as important
getUserWithNotes_notes_CountsAll ==
    /\ uw.pc = "notes"
    /\ LET userNotes == SelectNotesByUserId(notes, uw.userId)
       IN  last' = [op |-> "getUserWithNotes",
                    ret |-> [tag   |-> "userWithNotes",
                             rows  |-> userNotes,
                             user  |-> uw.user,
                             stats |-> [totalNotes     |-> Len(userNotes),
                                        importantNotes |-> Len(userNotes)]]]
    /\ uw' = [pc |-> "idle"]
    /\ UNCHANGED <<indexDb, storageDb, now, pg, seed>>

\* getUserWithNotes, second statement: SELECT * FROM notes WHERE user_id = ?,
\* then the statistics and the return
getUserWithNotes_notes ==
    /\ uw.pc = "notes"
    /\ LET userNotes == SelectNotesByUserId(notes, uw.userId)
       IN  last' = [op |-> "getUserWithNotes",
                    ret |-> [tag   |-> "userWithNotes",
                             rows  |-> userNotes,
                             user  |-> uw.user,
                             stats |-> [totalNotes     |-> Len(userNotes),
                                        importantNotes |-> CountImportant(userNotes)]]]
    /\ uw' = [pc |-> "idle"]
    /\ UNCHANGED <<indexDb, storageDb, now, pg, seed>>

----------------------------------------------------------------------------
(* seedDatabase (on the connection of db/index.ts): up to four statements, *)
(* every failure inside it is caught and logged                            *)

\* 'Getting Started with Drizzle'
TitleGettingStarted ==
    <<"G", "e", "t", "t", "i", "n", "g", " ", "S", "t", "a", "r",
      "t", "e", "d", " ", "w", "i", "t", "h", " ", "D", "r", "i",
      "z", "z", "l", "e">>

\* 'SQLite Setup'
TitleSqliteSetup ==
    <<"S", "Q", "L", "i", "t", "e", " ", "S", "e", "t", "u", "p">>

\* 'My First Note'
TitleMyFirstNote ==
    <<"M", "y", " ", "F", "i", "r", "s", "t", " ", "N", "o", "t",
      "e">>

SeedUsers ==
    << [username |-> "johndoe", password |-> "password123"],
       [username |-> "janedoe", password |-> "password456"] >>

\* the three sample notes, for the users read back and the time of the call
SeedNotes(allUsers, createdAt) ==
    << [title |-> TitleGettingStarted,
        content |-> "Drizzle ORM is a TypeScript ORM for SQL databases...",
        isImportant |-> TRUE, userId |-> allUsers[1].id, createdAt |-> createdAt],
       [title |-> TitleSqliteSetup,
        content |-> "SQLite is a lightweight database that works great for development...",
        isImportant |-> FALSE, userId |-> allUsers[1].id, createdAt |-> createdAt],
       [title |-> TitleMyFirstNote,
        content |-> "This is a test note created by Jane Doe.",
        isImportant |-> FALSE, userId |-> allUsers[2].id, createdAt |-> createdAt] >>

RECURSIVE InsertEachUser(_, _, _)
InsertEachUser(tbl, seq, us) ==
    IF us = << >>
    THEN [ok |-> TRUE, code |-> "", tbl |-> tbl, seq |-> seq, rows |-> << >>]
    ELSE LET r == InsertUser(tbl, seq, Head(us))
         IN  IF r.ok THEN InsertEachUser(r.tbl, r.seq, Tail(us)) ELSE r

\* INSERT INTO users VALUES (...), (...): one statement, all rows or none
InsertUsersValues(tbl, seq, us) ==
    LET r == InsertEachUser(tbl, seq, us)
    IN  IF r.ok THEN r
        ELSE [ok |-> FALSE, code |-> r.code, tbl |-> tbl, seq |-> seq,
              rows |-> << >>]

RECURSIVE InsertEachNote(_, _, _, _)
InsertEachNote(ntbl, utbl, seq, vs) ==
    IF vs = << >>
    THEN [ok |-> TRUE, code |-> "", tbl |-> ntbl, seq |-> seq, rows |-> << >>]
    ELSE LET r == InsertNote(ntbl, utbl, seq, Head(vs))
         IN  IF r.ok THEN InsertEachNote(r.tbl, utbl, r.seq, Tail(vs)) ELSE r

\* INSERT INTO notes VALUES (...), (...), (...): one statement, all rows or none
InsertNotesValues(ntbl, utbl, seq, vs) ==
    LET r == InsertEachNote(ntbl, utbl, seq, vs)
    IN  IF r.ok THEN r
        ELSE [ok |-> FALSE, code |-> r.code, tbl |-> ntbl, seq |-> seq,
              rows |-> << >>]

\* what seedDatabase hands to its caller: nothing, after console.log on
\* success or console.error in the catch block
SeedReturn(console) == [tag |-> "void", rows |-> << >>, console |-> console]

\* first statement: SELECT * FROM users; done when there are users
seedDatabase_existingUsers(c) ==
    /\ seed[c].pc = "idle"
    /\ LET existingUsers == UsersFromDriver(ByRowid(users))
       IN  IF Len(existingUsers) = 0
           THEN /\ seed' = [seed EXCEPT ![c] = [pc |-> "insertUsers"]]
                /\ last' = [op |-> "seedDatabase", ret |-> Pending]
           ELSE /\ seed' = seed
                /\ last' = [op |-> "seedDatabase", ret |-> SeedReturn("log")]
    /\ UNCHANGED <<indexDb, storageDb, now, pg, uw>>

\* second statement: the two sample users
seedDatabase_insertUsers(c) ==
    /\ seed[c].pc = "insertUsers"
    /\ LET r == InsertUsersValues(users, userSeq, SeedUsers)
       IN  /\ users' = r.tbl
           /\ userSeq' = r.seq
           /\ IF r.ok
              THEN /\ seed' = [seed EXCEPT ![c] = [pc |-> "allUsers"]]
                   /\ last' = [op |-> "seedDatabase", ret |-> Pending]
              ELSE /\ seed' = [seed EXCEPT ![c] = [pc |-> "idle"]]
                   /\ last' = [op |-> "seedDatabase", ret |-> SeedReturn("error")]
    /\ UNCHANGED <<notes, noteSeq, storageDb, now, pg, uw>>

\* third statement: SELECT * FROM users; then the values of the notes are
\* built (allUsers[1].id of a single user is a TypeError, caught as well)
seedDatabase_allUsers(c) ==
    /\ seed[c].pc = "allUsers"
    /\ LET allUsers == UsersFromDriver(ByRowid(users))
       IN  IF Len(allUsers) = 0
           THEN /\ seed' = [seed EXCEPT ![c] = [pc |-> "idle"]]
                /\ last' = [op |-> "seedDatabase", ret |-> SeedReturn("log")]
           ELSE IF Len(allUsers) = 1
           THEN /\ seed' = [seed EXCEPT ![c] = [pc |-> "idle"]]
                /\ last' = [op |-> "seedDatabase", ret |-> SeedReturn("error")]
           ELSE /\ seed' = [seed EXCEPT ![c] =
                                [pc |-> "insertNotes",
                                 values |-> SeedNotes(allUsers, now)]]
                /\ last' = [op |-> "seedDatabase", ret |-> Pending]
    /\ UNCHANGED <<indexDb, storageDb, now, pg, uw>>

\* fourth statement: the three sample notes
seedDatabase_insertNotes(c) ==
    /\ seed[c].pc = "insertNotes"
    /\ LET r == InsertNotesValues(notes, users, noteSeq, seed[c].values)
       IN  /\ notes' = r.tbl
           /\ noteSeq' = r.seq
           /\ last' = [op |-> "seedDatabase",
                       ret |-> SeedReturn(IF r.ok THEN "log" ELSE "error")]
    /\ seed' = [seed EXCEPT ![c] = [pc |-> "idle"]]
    /\ UNCHANGED <<users, userSeq, storageDb, now, pg, uw>>

----------------------------------------------------------------------------
(* Table creation: prepareDb (db/index.ts) and runMigrations, both on the  *)
(* connection of db/index.ts                                               *)

\* the tables of a connection once its module is loaded: db/index.ts calls
\* prepareDb() and storage.ts runs the same statements; nothing drops a table
Tables == {"users", "notes"}

\* the two statements without IF NOT EXISTS: creating a table that exists is
\* an error
ExecCreateTables_NoIfNotExists(tables, utbl, useq, ntbl, nseq) ==
    IF "users" \in tables \/ "notes" \in tables
    THEN [ok |-> FALSE, code |-> "SQLITE_ERROR",
          utbl |-> utbl, useq |-> useq, ntbl |-> ntbl, nseq |-> nseq]
    ELSE [ok |-> TRUE, code |-> "",
          utbl |-> {}, useq |-> 0, ntbl |-> {}, nseq |-> 0]

\* CREATE TABLE IF NOT EXISTS users (...); CREATE TABLE IF NOT EXISTS notes (...)
\* a table that exists is left as it is, a missing one is created empty
ExecCreateTables(tables, utbl, useq, ntbl, nseq) ==
    [ok |-> TRUE, code |-> "",
     utbl |-> IF "users" \in tables THEN utbl ELSE {},
     useq |-> IF "users" \in tables THEN useq ELSE 0,
     ntbl |-> IF "notes" \in tables THEN ntbl ELSE {},
     nseq |-> IF "notes" \in tables THEN nseq ELSE 0]

VoidReturn == [tag |-> "void", rows |-> << >>]

prepareDb ==
    /\ LET r == ExecCreateTables(Tables, users, userSeq, notes, noteSeq)
       IN  /\ users' = r.utbl /\ userSeq' = r.useq
           /\ notes' = r.ntbl /\ noteSeq' = r.nseq
           /\ last' = [op |-> "prepareDb",
                       ret |-> IF r.ok THEN VoidReturn ELSE Thrown(r.code)]
    /\ UNCHANGED <<storageDb, now, pg, uw, seed>>

runMigrations ==
    /\ LET r == ExecCreateTables(Tables, users, userSeq, notes, noteSeq)
       IN  /\ users' = r.utbl /\ userSeq' = r.useq
           /\ notes' = r.ntbl /\ noteSeq' = r.nseq
           /\ last' = [op |-> "runMigrations",
                       ret |-> IF r.ok THEN VoidReturn ELSE Thrown(r.code)]
    /\ UNCHANGED <<storageDb, now, pg, uw, seed>>

----------------------------------------------------------------------------
\* the server clock advances
Tick ==
    /\ now < MaxTicks * TickMs
    /\ now' = now + TickMs
    /\ UNCHANGED <<indexDb, storageDb, pg, uw, seed, last>>

----------------------------------------------------------------------------
(* Module load: both connections open an empty in-memory database and      *)
(* create the tables                                                       *)

Init ==
    /\ users = {} /\ notes = {} /\ userSeq = 0 /\ noteSeq = 0
    /\ sUsers = {} /\ sNotes = {} /\ sUserSeq = 0 /\ sNoteSeq = 0
    /\ now = 0
    /\ pg = [pc |-> "idle"]
    /\ uw = [pc |-> "idle"]
    /\ seed = [c \in SeedCallers |-> [pc |-> "idle"]]
    /\ last = [op |-> "none", ret |-> [tag |-> "none", rows |-> << >>]]

\* the model stops inserting when the next id would pass the bound
UserRoom(tbl, seq, bound) == Max(Ids(tbl) \cup {seq}) < bound
NoteRoom(tbl, seq, bound) == Max(Ids(tbl) \cup {seq}) < bound

\* the CRUD module, any interleaving of whole calls
Next ==
    \/ \E u \in InsertUsers : UserRoom(users, userSeq, MaxUserId) /\ createUser(u)
    \/ \E id \in UserIdArgs, d \in UserPatches : updateUser(id, d)
    \/ \E id \in UserIdArgs : deleteUser(id)
    \/ \E n \in InsertNotes : NoteRoom(notes, noteSeq, MaxNoteId) /\ createNote(n)
    \/ \E id \in NoteIdArgs, d \in NotePatches : updateNote(id, d)
    \/ \E id \in NoteIdArgs : deleteNote(id)
    \/ \E id \in UserIdArgs : deleteUserNotes(id)

Spec == Init /\ [][Next]_vars


----------------------------------------------------------------------------
(* The CRUD module and DrizzleStorage side by side *)

StorageInsertNotes == [title : {<<"a">>}, content : Contents, userId : 1 .. 2]

NextStorage ==
    \/ \E u \in InsertUsers : UserRoom(users, userSeq, MaxUserId) /\ createUser(u)
    \/ \E id \in UserIdArgs : deleteUser(id)
    \/ \E u \in InsertUsers :
          UserRoom(sUsers, sUserSeq, MaxUserId) /\ DrizzleStorage_createUser(u)
    \/ \E n \in StorageInsertNotes :
          NoteRoom(sNotes, sNoteSeq, 1) /\ DrizzleStorage_createNote(n)

SpecStorage == Init /\ [][NextStorage]_vars

----------------------------------------------------------------------------
(* The query helpers run on a store that is not written while a helper is  *)
(* between two of its statements                                           *)

QueryInsertUsers == [username : {"johndoe"}, password : {"password123"}]

QueryInsertNotes ==
    [title : Titles, content : Contents, userId : 1 .. MaxUserId]
    \cup [title : Titles, content : Contents, isImportant : {TRUE},
          userId : 1 .. MaxUserId]

PageArgs  == 0 .. MaxPage
LimitArgs == 1 .. MaxLimit

NextQuery ==
    \/ \E u \in QueryInsertUsers :
          /\ pg.pc = "idle"
          /\ UserRoom(users, userSeq, MaxUserId)
          /\ createUser(u)
    \/ \E n \in QueryInsertNotes :
          /\ pg.pc = "idle"
          /\ NoteRoom(notes, noteSeq, MaxQueryNotes)
          /\ createNote(n)
    \/ pg.pc = "idle" /\ Tick
    \/ \E q \in Queries, b \in BOOLEAN : pg.pc = "idle" /\ searchNotes(q, b)
    \/ \E p \in 1 .. 2 : getPaginatedNotes_select(p, 2)
    \/ getPaginatedNotes_count
    \/ pg.pc = "idle" /\ getNotesWithUsers

SpecQuery == Init /\ [][NextQuery]_vars

----------------------------------------------------------------------------
(* getPaginatedNotes over every page and limit, and the other ordered      *)
(* queries, on a store that is not written while a call is between two of  *)
(* its statements                                                          *)

PageInsertNotes == [title : {<<"a">>}, content : Contents, userId : {1}]

NextPage ==
    \/ \E u \in QueryInsertUsers :
          /\ pg.pc = "idle"
          /\ UserRoom(users, userSeq, 1)
          /\ createUser(u)
    \/ \E n \in PageInsertNotes :
          /\ pg.pc = "idle"
          /\ NoteRoom(notes, noteSeq, MaxPageNotes)
          /\ createNote(n)
    \/ pg.pc = "idle" /\ Tick
    \/ \E p \in PageArgs, l \in LimitArgs : getPaginatedNotes_select(p, l)
    \/ getPaginatedNotes_count
    \/ \E q \in {<< >>, <<"a">>}, b \in BOOLEAN :
          pg.pc = "idle" /\ searchNotes(q, b)
    \/ pg.pc = "idle" /\ getNotesWithUsers

SpecPage == Init /\ [][NextPage]_vars


----------------------------------------------------------------------------
(* Partial updates: every field of a note and of a user can be patched,    *)
(* on a store of two notes                                                 *)

EditedContents == {"edited"}

\* Partial<Omit<InsertNote, 'id'>>, over every field
UpdateNotePatches ==
    { << >> }
    \cup { [title |-> <<"A", "b">>] }
    \cup { [content |-> c] : c \in EditedContents }
    \cup { [isImportant |-> b] : b \in BOOLEAN }
    \cup { [userId |-> u] : u \in UserIdArgs }
    \cup { [title |-> <<"A", "b">>, isImportant |-> TRUE] }

UpdateInsertNotes == [title : {<<"a">>}, content : Contents, userId : 1 .. MaxUserId]

NextUpdate ==
    \/ \E u \in InsertUsers : UserRoom(users, userSeq, MaxUserId) /\ createUser(u)
    \/ \E n \in UpdateInsertNotes :
          NoteRoom(notes, noteSeq, 2) /\ createNote(n)
    \/ \E id \in Ids(users) \cup {userSeq + 1}, d \in UserPatches :
          updateUser(id, d)
    \/ \E id \in Ids(notes) \cup {noteSeq + 1}, d \in UpdateNotePatches :
          updateNote(id, d)

SpecUpdate == Init /\ [][NextUpdate]_vars

----------------------------------------------------------------------------

(* Users with their notes: getUserWithNotes and getNotesWithUsers over two *)
(* users, on a store that is not written while getUserWithNotes is between *)
(* its two statements                                                      *)

RenamePatches == { [username |-> u] : u \in Usernames }

\* InsertNote with isImportant given and with isImportant omitted
RelationInsertNotes ==
    [title : {<<"a">>}, content : Contents, isImportant : BOOLEAN,
     userId : 1 .. MaxUserId]
    \cup [title : {<<"a">>}, content : Contents, userId : 1 .. MaxUserId]

NextRelations ==
    \/ \E u \in InsertUsers :
          /\ uw.pc = "idle"
          /\ UserRoom(users, userSeq, MaxUserId)
          /\ createUser(u)
    \/ \E id \in Ids(users), d \in RenamePatches : uw.pc = "idle" /\ updateUser(id, d)
    \/ \E id \in Ids(users) : uw.pc = "idle" /\ deleteUser(id)
    \/ \E n \in RelationInsertNotes :
          /\ uw.pc = "idle"
          /\ NoteRoom(notes, noteSeq, MaxNoteId)
          /\ createNote(n)
    \/ \E id \in UserIdArgs : getUserWithNotes_user(id)
    \/ getUserWithNotes_notes
    \/ uw.pc = "idle" /\ getNotesWithUsers
    \/ uw.pc = "idle" /\ searchNotes(<< >>, TRUE)

SpecRelations == Init /\ [][NextRelations]_vars

----------------------------------------------------------------------------

(* Notes created, updated and deleted while the server clock advances;     *)
(* some inputs of createNote carry a createdAt of their own                *)

\* createdAt values (ms) a caller may put into the input of createNote
CallerTimes == {2 * MsPerSec}

ClockInsertNotes ==
    [title : {<<"a">>}, content : Contents, userId : {1}]
    \cup [title : {<<"a">>}, content : Contents, userId : {1},
          createdAt : CallerTimes]

ClockNotePatches == { [isImportant |-> TRUE], [title |-> <<"A", "b">>] }

ClockUserPatches == { [password |-> "password456"] }

NextClock ==
    \/ \E u \in QueryInsertUsers :
          UserRoom(users, userSeq, MaxUserId) /\ createUser(u)
    \/ \E id \in Ids(users), d \in ClockUserPatches : updateUser(id, d)
    \/ \E n \in ClockInsertNotes :
          NoteRoom(notes, noteSeq, MaxNoteId) /\ createNote(n)
    \/ \E id \in Ids(notes), d \in ClockNotePatches : updateNote(id, d)
    \/ \E id \in Ids(notes) : deleteNote(id)
    \/ \E u \in QueryInsertUsers :
          UserRoom(sUsers, sUserSeq, 1) /\ DrizzleStorage_createUser(u)
    \/ \E n \in ClockInsertNotes :
          NoteRoom(sNotes, sNoteSeq, 1) /\ DrizzleStorage_createNote(n)
    \/ Tick

SpecClock == Init /\ [][NextClock]_vars

----------------------------------------------------------------------------

(* Error classes and the tryCatch wrapper, as the page Home.tsx prints them *)

\* message texts are sequences of the pieces that the wrapper's tests tell
\* apart: words, blanks and punctuation
Blank == " "

\* the error object that a failing call throws: the driver's SqliteError for
\* a constraint, the query builder's Error for an empty patch
ThrownError(code) ==
    IF code = "SQLITE_CONSTRAINT_UNIQUE"
    THEN [name |-> "SqliteError", code |-> code, instanceofError |-> TRUE,
          message |-> <<"UNIQUE", Blank, "constraint", Blank, "failed", ":",
                        Blank, "users", ".", "username">>]
    ELSE IF code = "SQLITE_CONSTRAINT_FOREIGNKEY"
    THEN [name |-> "SqliteError", code |-> code, instanceofError |-> TRUE,
          message |-> <<"FOREIGN", Blank, "KEY", Blank, "constraint", Blank,
                        "failed">>]
    ELSE [name |-> "Error", code |-> code, instanceofError |-> TRUE,
          message |-> <<"No", Blank, "values", Blank, "to", Blank, "set">>]

\* String.prototype.toLowerCase on the pieces of a message
LowerPiece(w) ==
    CASE w = "UNIQUE"  -> "unique"
      [] w = "FOREIGN" -> "foreign"
      [] w = "KEY"     -> "key"
      [] w = "No"      -> "no"
      [] w = "User"    -> "user"
      [] w = "ID"      -> "id"
      [] OTHER         -> w

toLowerCase(message) == [i \in 1 .. Len(message) |-> LowerPiece(message[i])]

\* String.prototype.includes
includes(message, part) ==
    \E i \in 0 .. (Len(message) - Len(part)) :
        \A j \in 1 .. Len(part) : message[i + j] = part[j]

DatabaseError(message, cause) ==
    [name |-> "DatabaseError", message |-> message, cause |-> cause]

UniqueConstraintError(field) ==
    [name |-> "UniqueConstraintError",
     message |-> <<"Value", Blank, "for", Blank>> \o field
                 \o <<Blank, "already", Blank, "exists">>]

\* `${resource} with ID ${id} not found`
NotFoundError(resource, id) ==
    [name |-> "NotFoundError", instanceofError |-> TRUE,
     message |-> resource \o <<Blank, "with", Blank, "ID", Blank, ToString(id),
                               Blank, "not", Blank, "found">>]

\* the error that catch receives: the one the operation threw itself, or the
\* one of the statement that failed in it
CaughtError(ret) ==
    IF Has(ret, "error") THEN ret.error ELSE ThrownError(ret.code)

\* tryCatch(operation), on the outcome of the operation
tryCatch(ret) ==
    IF ret.tag # "throw"
    THEN ret
    ELSE LET error == CaughtError(ret)
         IN  [tag |-> "throw", rows |-> << >>,
              error |->
                IF error.instanceofError
                THEN LET message == toLowerCase(error.message)
                     IN  IF includes(message, <<"unique", Blank, "constraint">>)
                         THEN UniqueConstraintError(
                                  IF includes(message, <<"username">>)
                                  THEN <<"username">>
                                  ELSE <<"unknown", Blank, "field">>)
                         ELSE DatabaseError(<<"Database", Blank, "operation",
                                              Blank, "failed">>, error)
                ELSE DatabaseError(<<"Unknown", Blank, "database", Blank,
                                     "error">>, error)]

----------------------------------------------------------------------------

\* safeGetUserById: the select and the throw of NotFoundError run inside
\* the operation handed to tryCatch
safeGetUserById(id) ==
    /\ LET result == SelectUserById(users, id)
           operation ==
               IF Len(result) = 0
               THEN [tag |-> "throw", rows |-> << >>,
                     error |-> NotFoundError(<<"User">>, id)]
               ELSE [tag |-> "row", rows |-> <<result[1]>>]
       IN  last' = [op |-> "safeGetUserById", ret |-> tryCatch(operation)]
    /\ UNCHANGED <<indexDb, storageDb, now, pg, uw, seed>>

----------------------------------------------------------------------------

(* seedDatabase called by two callers, next to calls that create and       *)
(* delete users                                                            *)

NextSeed ==
    \/ \E c \in SeedCallers : userSeq < MaxUserId /\ seedDatabase_existingUsers(c)
    \/ \E c \in SeedCallers : seedDatabase_insertUsers(c)
    \/ \E c \in SeedCallers : seedDatabase_allUsers(c)
    \/ \E c \in SeedCallers : seedDatabase_insertNotes(c)
    \/ \E u \in InsertUsers : userSeq < MaxUserId /\ createUser(u)
    \/ \E id \in Ids(users) : deleteUser(id)
    \/ Tick

SpecSeed == Init /\ [][NextSeed]_vars

----------------------------------------------------------------------------

(* Rows created and deleted, and the tables created again at any point *)

LifecycleInsertNotes == [title : {<<"a">>}, content : Contents, userId : 1 .. MaxUserId]

NextLifecycle ==
    \/ \E u \in InsertUsers : UserRoom(users, userSeq, MaxUserId) /\ createUser(u)
    \/ \E id \in Ids(users) : deleteUser(id)
    \/ \E n \in LifecycleInsertNotes :
          NoteRoom(notes, noteSeq, MaxNoteId) /\ createNote(n)
    \/ \E id \in Ids(notes) : deleteNote(id)
    \/ prepareDb
    \/ runMigrations

SpecLifecycle == Init /\ [][NextLifecycle]_vars

----------------------------------------------------------------------------

(* getPaginatedNotes with any integer page and limit, while other callers  *)
(* create and delete notes between its two statements                      *)

AnyPageArgs  == (0 - 1) .. 2
AnyLimitArgs == (0 - 1) .. 2

RaceInsertNotes == [title : {<<"a">>}, content : Contents, userId : 1 .. MaxUserId]

NextPageRace ==
    \/ \E u \in QueryInsertUsers :
          UserRoom(users, userSeq, MaxUserId) /\ createUser(u)
    \/ \E id \in Ids(users) : deleteUser(id)
    \/ \E n \in RaceInsertNotes :
          NoteRoom(notes, noteSeq, MaxNoteId) /\ createNote(n)
    \/ \E id \in Ids(notes) : deleteNote(id)
    \/ \E id \in Ids(users) : deleteUserNotes(id)
    \/ \E p \in AnyPageArgs, l \in AnyLimitArgs : getPaginatedNotes_select(p, l)
    \/ getPaginatedNotes_count

SpecPageRace == Init /\ [][NextPageRace]_vars

----------------------------------------------------------------------------

(* getUserWithNotes while other callers write between its two statements *)

UserRaceInsertNotes ==
    [title : {<<"a">>}, content : Contents, isImportant : BOOLEAN,
     userId : 1 .. MaxUserId]

UserRaceNotePatches == { [isImportant |-> TRUE] }

NextUserRace ==
    \/ \E u \in InsertUsers : UserRoom(users, userSeq, MaxUserId) /\ createUser(u)
    \/ \E id \in Ids(users) : deleteUser(id)
    \/ \E n \in UserRaceInsertNotes :
          NoteRoom(notes, noteSeq, MaxNoteId) /\ createNote(n)
    \/ \E id \in Ids(notes), d \in UserRaceNotePatches : updateNote(id, d)
    \/ \E id \in Ids(users) : deleteUserNotes(id)
    \/ \E id \in UserIdArgs : getUserWithNotes_user(id)
    \/ getUserWithNotes_notes

SpecUserRace == Init /\ [][NextUserRace]_vars

----------------------------------------------------------------------------

(* seedDatabase as the only writer of the store of db/index.ts: calls made *)
(* one after the other or interleaved at their statements, and the join    *)
(* query reading what they wrote                                           *)

NextSeedOnly ==
    \/ \E c \in SeedCallers : seedDatabase_existingUsers(c)
    \/ \E c \in SeedCallers : seedDatabase_insertUsers(c)
    \/ \E c \in SeedCallers : seedDatabase_allUsers(c)
    \/ \E c \in SeedCallers : seedDatabase_insertNotes(c)
    \/ getNotesWithUsers
    \/ Tick

SpecSeedOnly == Init /\ [][NextSeedOnly]_vars

----------------------------------------------------------------------------

(* The safe wrapper of the page, called while users come and go *)

NextSafe ==
    \/ \E u \in InsertUsers : UserRoom(users, userSeq, MaxUserId) /\ createUser(u)
    \/ \E id \in Ids(users), d \in UserPatches : updateUser(id, d)
    \/ \E id \in Ids(users) : deleteUser(id)
    \/ \E id \in UserIdArgs : safeGetUserById(id)

SpecSafe == Init /\ [][NextSafe]_vars

----------------------------------------------------------------------------
(* Properties of the store *)

\* C1: referential integrity.  In every state reachable by the CRUD calls,
\* every stored note's userId is the id of a user that currently exists.
C1_ReferentialIntegrity ==
    \A n \in notes : \E u \in users : u.id = n.user_id

\* a user has just been deleted while notes of another user are stored
C1_Witness ==
    /\ last.op = "deleteUser" /\ last.ret.tag = "row"
    /\ notes # {} /\ noteSeq > Cardinality(notes)

\* C2: deleting an existing user cascades.  Right after deleteUser(id)
\* returns, getNotesByUserId(id) is empty, getUserById(id) is null and the
\* notes of every other user are what they were.
C2_DeleteUserCascades ==
    [][\A id \in UserIdArgs :
          (last'.op = "deleteUser" /\ id \in Ids(users) /\ deleteUser(id)) =>
              /\ RowsResult(SelectNotesByUserId(notes', id)).rows = << >>
              /\ FirstOrNull(SelectUserById(users', id)).tag = "null"
              /\ \A o \in UserIdArgs \ {id} :
                    SelectNotesByUserId(notes', o) = SelectNotesByUserId(notes, o)
      ]_vars

\* a user that owned a note has been deleted and another user's note is left
C2_Witness ==
    /\ last.op = "deleteUser" /\ last.ret.tag = "row"
    /\ Cardinality(notes) = 1 /\ noteSeq = 2
    /\ \A n \in notes : n.user_id # last.ret.rows[1].id

\* C3: usernames are unique.  createUser with the username of an existing
\* user throws the UNIQUE constraint error, adds no row and leaves what
\* getUserById and getUserByUsername return for the existing users as it
\* was; no state holds two users with one username.
C3_UsernameUnique ==
    /\ [](\A a, b \in users : a.username = b.username => a = b)
    /\ [][\A u \in InsertUsers :
             ( /\ last'.op = "createUser"
               /\ \E r \in users : r.username = u.username
               /\ createUser(u) ) =>
                 /\ last'.ret = Thrown("SQLITE_CONSTRAINT_UNIQUE")
                 /\ users' = users
                 /\ \A r \in users :
                       /\ FirstOrNull(SelectUserById(users', r.id))
                             = FirstOrNull(<<UserFromDriver(r)>>)
                       /\ FirstOrNull(SelectUserByUsername(users', r.username))
                             = FirstOrNull(<<UserFromDriver(r)>>)
         ]_vars

\* a createUser with a taken username has just been rejected
C3_Witness ==
    /\ last.op = "createUser"
    /\ last.ret = Thrown("SQLITE_CONSTRAINT_UNIQUE")
    /\ users # {}

\* C4: createNote with a userId that is no existing user's id throws the
\* FOREIGN KEY constraint error and leaves users and notes unchanged.
C4_CreateNoteForeignKey ==
    [][\A n \in InsertNotes :
          ( /\ last'.op = "createNote"
            /\ n.userId \notin Ids(users)
            /\ createNote(n) ) =>
              /\ last'.ret = Thrown("SQLITE_CONSTRAINT_FOREIGNKEY")
              /\ UNCHANGED <<users, notes>>
      ]_vars

\* a createNote for a missing user has just been rejected, with rows stored
C4_Witness ==
    /\ last.op = "createNote"
    /\ last.ret = Thrown("SQLITE_CONSTRAINT_FOREIGNKEY")
    /\ users # {} /\ notes # {}

\* C5: updates cannot break a constraint.  updateUser of an existing user
\* that sets username to the username of a different user throws the UNIQUE
\* error, updateNote of an existing note that sets userId to the id of no
\* existing user throws the FOREIGN KEY error, and either leaves every
\* stored row unchanged.
C5_UpdateConstraints ==
    [][/\ \A id \in UserIdArgs, d \in UserPatches :
             ( /\ last'.op = "updateUser"
               /\ Has(d, "username")
               /\ id \in Ids(users)
               /\ \E o \in users : o.id # id /\ o.username = d.username
               /\ updateUser(id, d) ) =>
                 /\ last'.ret = Thrown("SQLITE_CONSTRAINT_UNIQUE")
                 /\ UNCHANGED <<users, notes>>
       /\ \A id \in NoteIdArgs, d \in NotePatches :
             ( /\ last'.op = "updateNote"
               /\ Has(d, "userId")
               /\ id \in Ids(notes)
               /\ d.userId \notin Ids(users)
               /\ updateNote(id, d) ) =>
                 /\ last'.ret = Thrown("SQLITE_CONSTRAINT_FOREIGNKEY")
                 /\ UNCHANGED <<users, notes>>
      ]_vars

\* an updateNote that pointed a stored note at a missing user was rejected
C5_Witness ==
    /\ last.op = "updateNote"
    /\ last.ret = Thrown("SQLITE_CONSTRAINT_FOREIGNKEY")
    /\ Cardinality(users) = 2


\* C6: create/read round trip.  createUser with a username not yet present
\* returns a row with the supplied username and password and an id no stored
\* user has, and getUserById of that id then returns a row equal to it; the
\* same for DrizzleStorage.createUser and DrizzleStorage.getUserById.
C6_CreateReadRoundTrip ==
    [][\A u \in InsertUsers :
          /\ ( /\ last'.op = "createUser"
               /\ ~ \E r \in users : r.username = u.username
               /\ createUser(u) ) =>
                 /\ last'.ret.tag = "row"
                 /\ last'.ret.rows[1].username = u.username
                 /\ last'.ret.rows[1].password = u.password
                 /\ last'.ret.rows[1].id \notin Ids(users)
                 /\ FirstOrNull(SelectUserById(users', last'.ret.rows[1].id))
                       = last'.ret
          /\ ( /\ last'.op = "DrizzleStorage.createUser"
               /\ ~ \E r \in sUsers : r.username = u.username
               /\ DrizzleStorage_createUser(u) ) =>
                 /\ last'.ret.tag = "row"
                 /\ last'.ret.rows[1].username = u.username
                 /\ last'.ret.rows[1].password = u.password
                 /\ last'.ret.rows[1].id \notin Ids(sUsers)
                 /\ FirstOrUndefined(SelectUserById(sUsers', last'.ret.rows[1].id))
                       = last'.ret
      ]_vars

\* DrizzleStorage.createUser has returned a second row, and the CRUD module
\* holds a user created after an earlier one was deleted
C6_Witness ==
    /\ last.op = "DrizzleStorage.createUser" /\ last.ret.tag = "row"
    /\ last.ret.rows[1].id = 2
    /\ \E r \in users : r.id = 2
    /\ Cardinality(users) = 1

\* ceil(n / l) for n >= 0 and l >= 1
CeilOf(n, l) == CHOOSE k \in 0 .. n : k * l >= n /\ (k = 0 \/ (k - 1) * l < n)

RECURSIVE SumPageLens(_, _)
\* the lengths of pages 1 .. p at the given limit, summed
SumPageLens(p, limit) ==
    IF p = 0 THEN 0
    ELSE Len(CHOOSE d \in selectNotesPage(p, limit) : TRUE)
         + SumPageLens(p - 1, limit)

\* C7: pagination totals.  On a store of N notes that is not written during
\* the call, getPaginatedNotes(page, limit) with limit >= 1 reports total = N
\* and pages = ceil(N / limit) for every page, and the lengths of the data
\* of pages 1 .. pages sum to N.
C7_PaginationTotals ==
    LET N == Cardinality(notes)
    IN  /\ (last.op = "getPaginatedNotes" /\ last.ret.tag = "page") =>
               /\ last.ret.pagination.total = N
               /\ last.ret.pagination.pages =
                     [kind |-> "finite", n |-> CeilOf(N, last.ret.pagination.limit)]
        /\ \A l \in LimitArgs :
               /\ \A p \in 1 .. CeilOf(N, l) :
                     \A d \in selectNotesPage(p, l) :
                        Len(d) = Len(CHOOSE e \in selectNotesPage(p, l) : TRUE)
               /\ SumPageLens(CeilOf(N, l), l) = N

\* the last of two pages of a three-note store has been returned
C7_Witness ==
    /\ last.op = "getPaginatedNotes" /\ last.ret.tag = "page"
    /\ Cardinality(notes) = 3
    /\ last.ret.pagination.limit = 2
    /\ last.ret.pagination.page = 2
    /\ Len(last.ret.rows) = 1

\* C8: a page past the end.  On a store of N notes that is not written
\* during the call, getPaginatedNotes(page, limit) with limit >= 1 and
\* page > ceil(N / limit) returns normally, with empty data, total = N and
\* pages = ceil(N / limit), and with the page and limit the call was given.
C8_PagePastEnd ==
    /\ [](LET N == Cardinality(notes)
          IN  ( /\ last.op = "getPaginatedNotes"
                /\ last.ret.tag # "pending"
                /\ last.ret.pagination.page
                      > CeilOf(N, last.ret.pagination.limit) ) =>
                  /\ last.ret.tag = "page"
                  /\ last.ret.rows = << >>
                  /\ last.ret.pagination.total = N
                  /\ last.ret.pagination.pages =
                        [kind |-> "finite",
                         n |-> CeilOf(N, last.ret.pagination.limit)])
    /\ [][getPaginatedNotes_count =>
             /\ last'.ret.pagination.page = pg.page
             /\ last'.ret.pagination.limit = pg.limit]_vars

\* page 3 of a three-note store at two notes a page has been returned
C8_Witness ==
    /\ last.op = "getPaginatedNotes" /\ last.ret.tag = "page"
    /\ Cardinality(notes) = 3
    /\ last.ret.pagination.limit = 2
    /\ last.ret.pagination.page = 3
    /\ last.ret.rows = << >>


\* str contains q as a substring, character for character
Contains(str, q) ==
    \E i \in 1 .. (Len(str) - Len(q) + 1) : SubSeq(str, i, i + Len(q) - 1) = q

SeqRange(sq) == { sq[i] : i \in 1 .. Len(sq) }

\* C9: searchNotes filter semantics.  searchNotes("", false) returns every
\* note, searchNotes("", true) exactly the important ones, and for a
\* non-empty titleQuery q the result holds exactly the notes whose title
\* contains q as a substring, restricted to the important ones when
\* importantOnly is true.
C9_SearchFilter ==
    \A q \in Queries, b \in BOOLEAN :
        \A res \in searchNotesResults(q, b) :
            LET expected ==
                    { NoteFromDriver(n) :
                        n \in { m \in notes :
                                  /\ (q # << >>) => Contains(m.title, q)
                                  /\ b => BoolFromDriver(m.is_important) } }
            IN  /\ SeqRange(res) = expected
                /\ Len(res) = Cardinality(expected)

\* createdAt never increases along the sequence
SortedDesc(at) ==
    \A i, j \in 1 .. Len(at) : i < j => at[i] >= at[j]

\* the createdAt values of a sequence of notes, and of {note, user} pairs
NoteCreatedAt(sq) == [i \in 1 .. Len(sq) |-> sq[i].createdAt]
PairCreatedAt(sq) == [i \in 1 .. Len(sq) |-> sq[i].note.createdAt]

\* C10: result ordering.  In every state and for every argument, what
\* searchNotes, getPaginatedNotes (data) and getNotesWithUsers return is
\* sorted by createdAt descending.
C10_ResultOrdering ==
    /\ \A q \in Queries, b \in BOOLEAN :
          \A res \in searchNotesResults(q, b) : SortedDesc(NoteCreatedAt(res))
    /\ \A p \in -1 .. MaxPage, l \in -1 .. MaxLimit :
          \A res \in selectNotesPage(p, l) : SortedDesc(NoteCreatedAt(res))
    /\ \A res \in getNotesWithUsersResults : SortedDesc(PairCreatedAt(res))
    /\ last.op \in {"searchNotes", "getPaginatedNotes"} =>
          SortedDesc(NoteCreatedAt(last.ret.rows))
    /\ last.op = "getNotesWithUsers" => SortedDesc(PairCreatedAt(last.ret.rows))

\* searchNotes has returned three notes, the newest created a second after
\* the two others
C10_Witness ==
    /\ last.op = "searchNotes"
    /\ Len(last.ret.rows) = 3
    /\ last.ret.rows[1].id = 3
    /\ last.ret.rows[1].createdAt > last.ret.rows[2].createdAt
    /\ last.ret.rows[2].createdAt = last.ret.rows[3].createdAt

\* the fields of a selected note and of a selected user
NoteFields == {"id", "title", "content", "isImportant", "userId", "createdAt"}
UserFields == {"id", "username", "password"}

\* C11: an updateNote or updateUser that succeeds on an existing row sets
\* exactly the fields present in the patch to the supplied values and leaves
\* every other field of that row (id and createdAt included), every other row
\* of the table and the other table unchanged; it returns the updated row.
C11_PartialUpdateFrame ==
    [][ /\ (last'.op = "updateNote" /\ last'.ret.tag # "throw") =>
              \A id \in Ids(notes), d \in UpdateNotePatches :
                  updateNote(id, d) =>
                      LET old == SelectNoteById(notes, id)
                          new == SelectNoteById(notes', id)
                      IN  /\ Len(new) = 1
                          /\ \A f \in NoteFields :
                                new[1][f] = IF Has(d, f) THEN d[f] ELSE old[1][f]
                          /\ last'.ret = FirstOrNull(new)
                          /\ { r \in notes' : r.id # id } = { r \in notes : r.id # id }
                          /\ users' = users
        /\ (last'.op = "updateUser" /\ last'.ret.tag # "throw") =>
              \A id \in Ids(users), d \in UserPatches :
                  updateUser(id, d) =>
                      LET old == SelectUserById(users, id)
                          new == SelectUserById(users', id)
                      IN  /\ Len(new) = 1
                          /\ \A f \in UserFields :
                                new[1][f] = IF Has(d, f) THEN d[f] ELSE old[1][f]
                          /\ last'.ret = FirstOrNull(new)
                          /\ { r \in users' : r.id # id } = { r \in users : r.id # id }
                          /\ notes' = notes
      ]_vars

\* an important note got a new title by a patch of the title alone, next to
\* another note
C11_Witness ==
    /\ last.op = "updateNote"
    /\ last.ret.tag = "row"
    /\ last.ret.rows[1].title = <<"A", "b">>
    /\ last.ret.rows[1].isImportant
    /\ last.ret.rows[1].content = "edited"
    /\ \E r \in notes : r.id # last.ret.rows[1].id /\ r.title = <<"a">>

\* C12: deleteUserNotes(userId) removes exactly the notes of that user:
\* afterwards getNotesByUserId(userId) is empty, the notes of every other user
\* are present and unchanged, and the users table, that user included, is
\* unchanged.
C12_DeleteUserNotesFrame ==
    [][ (last'.op = "deleteUserNotes") =>
            \A u \in UserIdArgs :
                deleteUserNotes(u) =>
                    /\ SelectNotesByUserId(notes', u) = << >>
                    /\ \A v \in UserIdArgs \ {u} :
                          SelectNotesByUserId(notes', v) = SelectNotesByUserId(notes, v)
                    /\ notes' \subseteq notes
                    /\ last'.ret.changes = Len(SelectNotesByUserId(notes, u))
                    /\ users' = users
      ]_vars

\* a user's notes were deleted while that user and another user's note remain
C12_Witness ==
    /\ last.op = "deleteUserNotes"
    /\ last.ret.changes >= 1
    /\ notes # {}
    /\ \E u \in users : \A n \in notes : n.user_id # u.id

\* C13: on a store that is not written during the call, getUserWithNotes(userId)
\* returns null when no user has that id; otherwise it returns that user,
\* exactly the notes whose userId is that id, totalNotes = their number and
\* importantNotes = the number of them that are important; the store is not
\* modified.
C13_UserWithNotes ==
    [][ (last'.op = "getUserWithNotes") =>
          /\ UNCHANGED <<indexDb, storageDb>>
          /\ \A id \in UserIdArgs :
                getUserWithNotes_user(id) =>
                    IF id \in Ids(users)
                    THEN last'.ret = Pending /\ uw'.userId = id
                    ELSE last'.ret.tag = "null"
          /\ getUserWithNotes_notes =>
                LET mine == { n \in notes : n.user_id = uw.userId }
                    ret  == last'.ret
                IN  /\ ret.tag = "userWithNotes"
                    /\ \E u \in users : u.id = uw.userId /\ ret.user = UserFromDriver(u)
                    /\ Len(ret.rows) = Cardinality(mine)
                    /\ SeqRange(ret.rows) = { NoteFromDriver(n) : n \in mine }
                    /\ ret.stats.totalNotes = Cardinality(mine)
                    /\ ret.stats.importantNotes =
                          Cardinality({ n \in mine : n.is_important = 1 })
      ]_vars

\* a user with two notes, one of them important, was returned with stats {2, 1}
\* while another user exists
C13_Witness ==
    /\ last.op = "getUserWithNotes"
    /\ last.ret.tag = "userWithNotes"
    /\ last.ret.stats = [totalNotes |-> 2, importantNotes |-> 1]
    /\ Cardinality(users) = 2

\* C17: getNotesWithUsers returns, in every reachable state, exactly one pair
\* per stored note; the pair's user.id is the note's userId and user.username
\* is that user's current username, and no pair carries a password.
C17_NotesWithUsers ==
    /\ \A res \in getNotesWithUsersResults :
          /\ Len(res) = Cardinality(notes)
          /\ \A n \in notes :
                \E i \in 1 .. Len(res) :
                    /\ res[i].note.id = n.id
                    /\ res[i].note.title = n.title
                    /\ res[i].user.id = n.user_id
                    /\ \E u \in users :
                          u.id = n.user_id /\ res[i].user.username = u.username
          /\ \A i \in 1 .. Len(res) :
                /\ DOMAIN res[i] = {"note", "user"}
                /\ DOMAIN res[i].user = {"id", "username"}
                /\ "password" \notin DOMAIN res[i].note
    /\ (last.op = "getNotesWithUsers") =>
          last.ret.rows \in getNotesWithUsersResults

\* the join returned the notes of two users, one of them renamed since the
\* creation of the users
C17_Witness ==
    /\ last.op = "getNotesWithUsers"
    /\ Len(last.ret.rows) = 2
    /\ last.ret.rows[1].user.id # last.ret.rows[2].user.id
    /\ \E u \in users : u.id = 2 /\ u.username = "johndoe"
    /\ \E i \in 1 .. 2 : last.ret.rows[i].user = [id |-> 2, username |-> "johndoe"]

\* C14: not-found is a value: for an id or username that matches no row,
\* getUserById, getUserByUsername, getNoteById, updateUser, updateNote,
\* deleteUser and deleteNote return an absent result without raising and leave
\* the store unchanged; getNotesByUserId returns the empty sequence for a user
\* without notes and for a user that does not exist.
C14_NotFoundIsValue ==
    [][ /\ \A id \in UserIdArgs \ Ids(users) :
              /\ getUserById(id).tag = "null"
              /\ getNotesByUserId(id) = RowsResult(<< >>)
              /\ \A d \in UserPatches :
                    (last'.op = "updateUser" /\ updateUser(id, d)) =>
                        last'.ret.tag = "null" /\ UNCHANGED <<users, notes>>
              /\ (last'.op = "deleteUser" /\ deleteUser(id)) =>
                    last'.ret.tag = "null" /\ UNCHANGED <<users, notes>>
        /\ \A id \in UserIdArgs \ Ids(sUsers) :
              /\ DrizzleStorage_getUserById(id).tag = "undefined"
              /\ DrizzleStorage_getNotesByUserId(id) = RowsResult(<< >>)
        /\ \A name \in Usernames :
              (\A u \in users : u.username # name) =>
                  getUserByUsername(name).tag = "null"
        /\ \A id \in Ids(users) :
              (\A n \in notes : n.user_id # id) =>
                  getNotesByUserId(id) = RowsResult(<< >>)
        /\ \A id \in NoteIdArgs \ Ids(notes) :
              /\ getNoteById(id).tag = "null"
              /\ \A d \in NotePatches :
                    (last'.op = "updateNote" /\ updateNote(id, d)) =>
                        last'.ret.tag = "null" /\ UNCHANGED <<users, notes>>
              /\ (last'.op = "deleteNote" /\ deleteNote(id)) =>
                    last'.ret.tag = "null" /\ UNCHANGED <<users, notes>>
      ]_vars

\* C15 as stated: the createdAt of the note that createNote created equals
\* the server's current time at the call, for every input.
C15_CreatedAtIsNow ==
    [][ /\ \A n \in ClockInsertNotes :
              (last'.op = "createNote" /\ createNote(n) /\ last'.ret.tag = "row") =>
                  last'.ret.rows[1].createdAt = now
        /\ \A n \in ClockInsertNotes :
              ( /\ last'.op = "DrizzleStorage.createNote"
                /\ DrizzleStorage_createNote(n)
                /\ last'.ret.tag = "row" ) =>
                  last'.ret.rows[1].createdAt = now
      ]_vars

\* C15, amended: the createdAt of the note that createNote created equals the
\* server's current time at the call rounded down to a whole second, for
\* every input, a createdAt of the caller's included, which is never used.
C15_CreatedAtIsNowInSeconds ==
    [][ /\ \A n \in ClockInsertNotes :
              (last'.op = "createNote" /\ createNote(n) /\ last'.ret.tag = "row") =>
                  /\ last'.ret.rows[1].createdAt = (now \div MsPerSec) * MsPerSec
                  /\ \E r \in notes' \ notes :
                        r.created_at * MsPerSec = last'.ret.rows[1].createdAt
        /\ \A n \in ClockInsertNotes :
              ( /\ last'.op = "DrizzleStorage.createNote"
                /\ DrizzleStorage_createNote(n)
                /\ last'.ret.tag = "row" ) =>
                  /\ last'.ret.rows[1].createdAt = (now \div MsPerSec) * MsPerSec
                  /\ \E r \in sNotes' \ sNotes :
                        r.created_at * MsPerSec = last'.ret.rows[1].createdAt
      ]_vars

\* a note was created and stamped with the second the clock had reached,
\* which is not the time of another note stamped earlier
C15_Witness ==
    /\ last.op = "createNote"
    /\ last.ret.tag = "row"
    /\ last.ret.rows[1].createdAt = MsPerSec
    /\ \E r \in notes : r.created_at = 0

\* C16: server-assigned fields do not change and createdAt is monotone: no
\* step changes the created_at of a note that stays in the table, an update
\* keeps the ids of the table, and of two notes the one created first (the
\* smaller id) has the createdAt that is not later.
C16_AssignedFieldsImmutable ==
    [][ /\ \A n \in notes : \A m \in notes' :
              m.id = n.id => m.created_at = n.created_at
        /\ \A u \in users' : u.id \in Ids(users) \/ u.id > userSeq
        /\ \A n \in notes' : n.id \in Ids(notes) \/ n.id > noteSeq
        /\ (last'.op = "updateNote" /\ last' # last) => Ids(notes') = Ids(notes)
        /\ (last'.op = "updateUser" /\ last' # last) => Ids(users') = Ids(users)
        /\ \A a \in notes', b \in notes' :
              a.id < b.id =>
                  TimestampFromDriver(a.created_at) <= TimestampFromDriver(b.created_at)
      ]_vars

\* an older note was updated after the clock had advanced and a newer note
\* had been created in a later second
C16_Witness ==
    /\ last.op = "updateNote"
    /\ last.ret.tag = "row"
    /\ last.ret.rows[1].createdAt = 0
    /\ last.ret.rows[1].isImportant
    /\ \E r \in notes : r.id > last.ret.rows[1].id /\ r.created_at = 1

\* the names of the error classes that stand for no particular constraint
GenericErrorNames == {"DatabaseError", "Error", "SqliteError"}

\* C18: constraint violations reach the caller as typed errors: a duplicate
\* username as a constraint-violation error that names the field username, a
\* foreign-key failure as a constraint-violation error that is neither the
\* unique one nor the generic one, every other failure as the generic storage
\* error with the thrown error as its cause.  The error is taken as the
\* wrapper tryCatch hands it on.
C18_TypedErrors ==
    (last.ret.tag = "throw" /\ last.op \in {"createUser", "updateUser",
                                           "createNote", "updateNote"}) =>
        LET seen == tryCatch(last.ret).error
        IN  /\ (last.ret.code = "SQLITE_CONSTRAINT_UNIQUE") =>
                  /\ seen.name = "UniqueConstraintError"
                  /\ includes(seen.message, <<"username">>)
            /\ (last.ret.code = "SQLITE_CONSTRAINT_FOREIGNKEY") =>
                  /\ seen.name # "UniqueConstraintError"
                  /\ seen.name \notin GenericErrorNames
            /\ (last.ret.code \notin {"SQLITE_CONSTRAINT_UNIQUE",
                                      "SQLITE_CONSTRAINT_FOREIGNKEY"}) =>
                  /\ seen.name = "DatabaseError"
                  /\ seen.cause = ThrownError(last.ret.code)

\* C19: storage failures are never swallowed: when a statement fails inside
\* an operation of the data layer, the caller of that operation observes a
\* failure, not a normal completion.
C19_FailuresSurface ==
    [][ /\ \A c \in SeedCallers :
              /\ ( /\ seedDatabase_insertUsers(c)
                   /\ ~ InsertUsersValues(users, userSeq, SeedUsers).ok ) =>
                     last'.ret.tag = "throw"
              /\ ( /\ seedDatabase_insertNotes(c)
                   /\ ~ InsertNotesValues(notes, users, noteSeq, seed[c].values).ok ) =>
                     last'.ret.tag = "throw"
        /\ \A u \in InsertUsers :
              ( /\ last'.op = "createUser"
                /\ createUser(u)
                /\ ~ InsertUser(users, userSeq, u).ok ) =>
                  last'.ret.tag = "throw"
      ]_vars

\* C20: one process-wide store: the CRUD functions, the DrizzleStorage
\* methods and the query helpers work on the same connection, so a row that
\* DrizzleStorage.createUser or DrizzleStorage.createNote has just returned
\* is what getUserById / getNoteById return for its id, is found by
\* getUserWithNotes, searchNotes and getPaginatedNotes, and a row that
\* createUser has just returned is what DrizzleStorage.getUserById returns.
C20_OneStore ==
    /\ (last.op = "DrizzleStorage.createUser" /\ last.ret.tag = "row") =>
          /\ getUserById(last.ret.rows[1].id).rows = last.ret.rows
          /\ SelectUserById(users, last.ret.rows[1].id) = last.ret.rows
    /\ (last.op = "DrizzleStorage.createNote" /\ last.ret.tag = "row") =>
          /\ getNoteById(last.ret.rows[1].id).rows = last.ret.rows
          /\ \A res \in searchNotesResults(<< >>, FALSE) :
                last.ret.rows[1] \in SeqRange(res)
          /\ \A page \in selectNotesPage(1, MaxLimit) :
                last.ret.rows[1] \in SeqRange(page)
    /\ (last.op = "createUser" /\ last.ret.tag = "row") =>
          DrizzleStorage_getUserById(last.ret.rows[1].id).rows = last.ret.rows

\* C21: later write wins.  Two updateNote (two updateUser) calls issued
\* concurrently on the same existing row run their statements one after the
\* other.  When the second runs right after the first has returned the row,
\* it succeeds whenever its patch is acceptable by itself, and afterwards
\* each field holds the value of the second patch if the second supplied it,
\* else the value of the first patch if the first supplied it, else what the
\* row held; the first is any patch d1 that agrees with the row it returned.
C21_LaterWriteWins ==
    [][ /\ (last.op = "updateNote" /\ last.ret.tag = "row"
              /\ last'.op = "updateNote") =>
              \A d1 \in UpdateNotePatches, d2 \in UpdateNotePatches :
                  LET id == last.ret.rows[1].id
                  IN  ( /\ d1 # << >>
                        /\ \A f \in DOMAIN d1 : last.ret.rows[1][f] = d1[f]
                        /\ d2 # << >>
                        /\ Has(d2, "userId") => d2.userId \in Ids(users)
                        /\ updateNote(id, d2) ) =>
                          /\ last'.ret.tag = "row"
                          /\ \A f \in NoteFields :
                                last'.ret.rows[1][f] =
                                    IF Has(d2, f) THEN d2[f]
                                    ELSE IF Has(d1, f) THEN d1[f]
                                    ELSE last.ret.rows[1][f]
                          /\ SelectNoteById(notes', id) = last'.ret.rows
        /\ (last.op = "updateUser" /\ last.ret.tag = "row"
              /\ last'.op = "updateUser") =>
              \A d1 \in UserPatches, d2 \in UserPatches :
                  LET id == last.ret.rows[1].id
                  IN  ( /\ d1 # << >>
                        /\ \A f \in DOMAIN d1 : last.ret.rows[1][f] = d1[f]
                        /\ d2 # << >>
                        /\ Has(d2, "username") =>
                              \A r \in users :
                                  r.username = d2.username => r.id = id
                        /\ updateUser(id, d2) ) =>
                          /\ last'.ret.tag = "row"
                          /\ \A f \in UserFields :
                                last'.ret.rows[1][f] =
                                    IF Has(d2, f) THEN d2[f]
                                    ELSE IF Has(d1, f) THEN d1[f]
                                    ELSE last.ret.rows[1][f]
                          /\ SelectUserById(users', id) = last'.ret.rows
      ]_vars

\* a note holds the content of one patch and the importance of another, which
\* no single patch supplies together
C21_Witness ==
    /\ last.op = "updateNote"
    /\ last.ret.tag = "row"
    /\ last.ret.rows[1].content = "edited"
    /\ last.ret.rows[1].isImportant
    /\ last.ret.rows[1].title = <<"a">>

\* C22: table creation is idempotent: prepareDb and runMigrations, run at any
\* point of a sequence of operations and any number of times, do not fail and
\* leave every user row and every note row (and the id counters) unchanged.
C22_TableCreationIdempotent ==
    [][ (last'.op \in {"prepareDb", "runMigrations"}
           /\ (prepareDb \/ runMigrations)) =>
            /\ last'.ret = VoidReturn
            /\ UNCHANGED <<users, notes, userSeq, noteSeq>>
      ]_vars

\* the tables were created again on a store that holds a user and a note and
\* from which a row had been deleted
C22_Witness ==
    /\ last.op = "runMigrations"
    /\ last.ret = VoidReturn
    /\ users # {} /\ notes # {}
    /\ userSeq > Cardinality(users)

\* C29: ids are never reused: the id that createUser (createNote) returns is
\* greater than every id assigned to a user (note) before, deleted rows
\* included.  The largest id ever assigned is the table's AUTOINCREMENT
\* counter: no step lowers it and no row has an id above it.
C29_IdsNeverReused ==
    [][ /\ userSeq' >= userSeq /\ noteSeq' >= noteSeq
        /\ \A u \in users' : u.id <= userSeq'
        /\ \A n \in notes' : n.id <= noteSeq'
        /\ (last'.op = "createUser" /\ last'.ret.tag = "row"
              /\ \E u \in InsertUsers : createUser(u)) =>
              /\ last'.ret.rows[1].id > userSeq
              /\ \A r \in users : last'.ret.rows[1].id > r.id
              /\ userSeq' = last'.ret.rows[1].id
        /\ (last'.op = "createNote" /\ last'.ret.tag = "row"
              /\ \E n \in LifecycleInsertNotes : createNote(n)) =>
              /\ last'.ret.rows[1].id > noteSeq
              /\ \A r \in notes : last'.ret.rows[1].id > r.id
              /\ noteSeq' = last'.ret.rows[1].id
      ]_vars

\* a user was created after the user with the largest id had been deleted
C29_Witness ==
    /\ last.op = "createUser"
    /\ last.ret.tag = "row"
    /\ last.ret.rows[1].id = 2
    /\ Cardinality(users) = 1

\* C23: isImportant defaults to false: a note that createNote creates from an
\* input without isImportant is stored with is_important 0 and returned with
\* isImportant false; searchNotes("", true) does not return it and it does
\* not add to the importantNotes that getUserWithNotes counts for its user.
C23_IsImportantDefault ==
    [][ /\ (last'.op = "createNote" /\ last'.ret.tag = "row") =>
              \A n \in RelationInsertNotes :
                  (~ Has(n, "isImportant") /\ createNote(n)) =>
                      LET row == last'.ret.rows[1]
                      IN  /\ row.isImportant = FALSE
                          /\ \E r \in notes' \ notes :
                                r.id = row.id /\ r.is_important = 0
                          /\ \A res \in (searchNotesResults(<< >>, TRUE))' :
                                \A i \in 1 .. Len(res) : res[i].id # row.id
                          /\ CountImportant(SelectNotesByUserId(notes', n.userId))
                                = CountImportant(SelectNotesByUserId(notes, n.userId))
        /\ (last'.op = "searchNotes" /\ searchNotes(<< >>, TRUE)) =>
              \A i \in 1 .. Len(last'.ret.rows) :
                  /\ last'.ret.rows[i].isImportant
                  /\ \E r \in notes :
                        r.id = last'.ret.rows[i].id /\ r.is_important = 1
      ]_vars

\* a note was created that is not important, for a user who has an important
\* note
C23_Witness ==
    /\ last.op = "createNote"
    /\ last.ret.tag = "row"
    /\ ~ last.ret.rows[1].isImportant
    /\ \E r \in notes :
          /\ r.user_id = last.ret.rows[1].userId
          /\ r.is_important = 1

PagePending == [op |-> "getPaginatedNotes", ret |-> Pending]

\* C25 as stated: getPaginatedNotes returns a snapshot under any interleaving
\* with createNote, deleteNote, deleteUserNotes and deleteUser: total is the
\* number of notes at the moment the page was read, so (for page >= 1 and
\* limit >= 1) len(data) <= total, and data is empty only if offset >= total.
C25_PageSnapshot ==
    ( /\ last.op = "getPaginatedNotes"
      /\ last.ret.tag = "page"
      /\ last.ret.pagination.page >= 1
      /\ last.ret.pagination.limit >= 1 ) =>
        /\ Len(last.ret.rows) <= last.ret.pagination.total
        /\ (last.ret.rows = << >>) =>
              (last.ret.pagination.page - 1) * last.ret.pagination.limit
                  >= last.ret.pagination.total

\* C25, amended: the returned data is the page as the first statement read it
\* and the returned total is the number of notes at the moment of the count
\* statement, which runs later; when no call runs between the two statements
\* then (for page >= 1 and limit >= 1) len(data) <= total and data is empty
\* only if offset >= total.
C25_TotalAtCount ==
    [][ (last'.op = "getPaginatedNotes" /\ getPaginatedNotes_count) =>
            /\ last'.ret.rows = pg.paginatedNotes
            /\ last'.ret.pagination.total = Cardinality(notes)
            /\ (last = PagePending /\ pg.page >= 1 /\ pg.limit >= 1) =>
                  /\ Len(last'.ret.rows) <= last'.ret.pagination.total
                  /\ (last'.ret.rows = << >>) =>
                        (pg.page - 1) * pg.limit >= last'.ret.pagination.total
      ]_vars

\* a call returned a page of two notes with total 1: a note was deleted
\* between its two statements
C25_Witness ==
    /\ last.op = "getPaginatedNotes"
    /\ last.ret.tag = "page"
    /\ Len(last.ret.rows) = 2
    /\ last.ret.pagination.total = 1
    /\ Cardinality(notes) = 1

\* C30: pagination metadata is well formed for every integer page and limit,
\* limit = 0, limit < 0 and page < 1 included: pages is a finite integer >= 0
\* and data holds at most max(limit, 0) notes.
C30_PaginationWellFormed ==
    (last.op = "getPaginatedNotes" /\ last.ret.tag = "page") =>
        /\ last.ret.pagination.pages.kind = "finite"
        /\ last.ret.pagination.pages.n >= 0
        /\ Len(last.ret.rows) <= Max({last.ret.pagination.limit, 0})

\* what last holds right after the first statement of getUserWithNotes, as
\* long as no other call has run
UserPending == [op |-> "getUserWithNotes", ret |-> Pending]

\* C26 as stated: a non-null result of getUserWithNotes is what the store
\* held at one instant between the call and its return, under any
\* interleaving with deleteUser, deleteUserNotes, createNote and updateNote.
\* Taken at the first write that runs after the call has read its user: if
\* the call returns next, the only instants are the ones before and after
\* that write, so the notes it will read are the notes the user had before
\* the write, or the user it holds is the user the store holds after it.
C26_UserNotesSnapshot ==
    [][ (uw.pc = "notes" /\ uw' = uw /\ last = UserPending) =>
            \/ SelectNotesByUserId(notes', uw.userId)
                  = SelectNotesByUserId(notes, uw.userId)
            \/ SelectUserById(users', uw.userId) = <<uw.user>>
      ]_vars

\* C26, amended: a non-null result of getUserWithNotes holds the user as its
\* first statement read it, exactly the notes that have that userId at the
\* moment of its second statement, and the statistics of these notes; it is
\* what the store holds at the return when no call ran between the two
\* statements.
C26_UserThenNotes ==
    [][ (last'.op = "getUserWithNotes") =>
          /\ \A id \in UserIdArgs :
                (getUserWithNotes_user(id) /\ last'.ret = Pending) =>
                    \E u \in users : u.id = id /\ uw'.user = UserFromDriver(u)
          /\ getUserWithNotes_notes =>
                LET mine == { n \in notes : n.user_id = uw.userId }
                    ret  == last'.ret
                IN  /\ ret.user = uw.user
                    /\ Len(ret.rows) = Cardinality(mine)
                    /\ SeqRange(ret.rows) = { NoteFromDriver(n) : n \in mine }
                    /\ ret.stats.totalNotes = Cardinality(mine)
                    /\ ret.stats.importantNotes =
                          Cardinality({ n \in mine : n.is_important = 1 })
                    /\ (last = UserPending) =>
                          \E u \in users : ret.user = UserFromDriver(u)
      ]_vars

\* a call returned a user that the store no longer holds, with no notes: the
\* user was deleted between the two statements
C26_Witness ==
    /\ last.op = "getUserWithNotes"
    /\ last.ret.tag = "userWithNotes"
    /\ last.ret.user.id \notin Ids(users)
    /\ last.ret.rows = << >>
    /\ last.ret.stats = [totalNotes |-> 0, importantNotes |-> 0]

\* the sample data: johndoe and janedoe, two notes of johndoe (one of them
\* important) and one note of janedoe
SeededStore ==
    /\ Cardinality(users) = 2
    /\ \E john \in users, jane \in users :
          /\ john.username = "johndoe" /\ jane.username = "janedoe"
          /\ Cardinality(notes) = 3
          /\ Cardinality({ n \in notes : n.user_id = john.id }) = 2
          /\ Cardinality({ n \in notes : n.user_id = john.id /\ n.is_important = 1 }) = 1
          /\ Cardinality({ n \in notes : n.user_id = jane.id }) = 1

\* C27: once every seedDatabase call made on the initially empty store has
\* returned, whether the calls ran one after the other or interleaved, the
\* store holds exactly the two sample users and the three sample notes; and
\* a seedDatabase call that finds a user in the store returns at once and
\* changes nothing.
C27_SeedRepeatable ==
    [][ (last'.op = "seedDatabase") =>
          /\ (\A c \in SeedCallers : seed'[c].pc = "idle") => SeededStore'
          /\ \A c \in SeedCallers :
                (seedDatabase_existingUsers(c) /\ users # {}) =>
                    /\ <<users, notes, userSeq, noteSeq>>' = <<users, notes, userSeq, noteSeq>>
                    /\ seed' = seed
                    /\ last'.ret = SeedReturn("log")
      ]_vars

\* two calls raced: the one that lost the insert of the users returned
\* through its catch block, the other one has returned too, and the store
\* holds the sample data once
C27_Witness ==
    /\ \A c \in SeedCallers : seed[c].pc = "idle"
    /\ last = [op |-> "seedDatabase", ret |-> SeedReturn("error")]
    /\ SeededStore

\* C28: safeGetUserById keeps the not-found kind: for an id that matches no
\* user it fails with a NotFoundError whose message names the resource and
\* the id, and for an id of a user it returns that user.
C28_NotFoundKept ==
    (last.op = "safeGetUserById") =>
        IF last.ret.tag = "throw"
        THEN /\ last.ret.error.name = "NotFoundError"
             /\ \E id \in UserIdArgs \ Ids(users) :
                   last.ret.error.message = NotFoundError(<<"User">>, id).message
        ELSE \E u \in users : last.ret.rows = <<UserFromDriver(u)>>

====
